---- MODULE Spec2Model ----
(***************************************************************************)
(* The HL7 ingest-and-transform pipeline ("01. HL7 Ingest and              *)
(* Transform.py"): the raw_data assembler, the parse_hl7_message UDF and   *)
(* the bronze / silver / gold_* tables derived from it.                    *)
(*                                                                         *)
(* Text is a sequence of characters.  The characters that matter to the    *)
(* code are kept one by one (carriage return, line feed, the field         *)
(* separator); a run of ordinary characters is one element, a string.      *)
(* A Python None / SQL NULL is the value None.                             *)
(*                                                                         *)
(* The chat front-end (frontend/app.py) is a separate program: its session *)
(* state is modelled beside the pipeline's and neither touches the other.  *)
(***************************************************************************)
EXTENDS Integers, Sequences, FiniteSets, TLC

VARIABLES
    arrived,    \* the (file_path, value) rows the cloudFiles stream has delivered, in arrival order
    ingested,   \* how many of them the last pipeline update had read (the stream's checkpoint)
    tables,     \* the materialised tables, by name
    status,     \* state of the pipeline: "IDLE", "COMPLETED" or "FAILED"
    pc,         \* the next flow to run when the flows are applied one by one
    messages,   \* the chat front-end's st.session_state.messages
    request,    \* the messages argument of the latest query_endpoint call
    script      \* the front-end's script run: "idle", or "calling" the endpoint

vars == <<arrived, ingested, tables, status, pc, messages, request, script>>
pipeline == <<arrived, ingested, tables, status, pc>>
chat == <<messages, request, script>>

None == "<None>"
CR == "\r"
LF == "\n"
FS == "|"

--------------------------------------------------------------------------
(* Strings *)

\* str.replace(old, new) for one-character old and new
Replace(s, old, new) == [i \in 1..Len(s) |-> IF s[i] = old THEN new ELSE s[i]]

\* str.split(sep): the pieces between the separators, empty pieces kept
RECURSIVE Split(_, _)
Split(s, sep) ==
    IF \A i \in 1..Len(s) : s[i] # sep
    THEN <<s>>
    ELSE LET k == CHOOSE i \in 1..Len(s) :
                      s[i] = sep /\ \A j \in 1..(i - 1) : s[j] # sep
         IN  <<SubSeq(s, 1, k - 1)>> \o Split(SubSeq(s, k + 1, Len(s)), sep)

\* the characters of a piece as one string
RECURSIVE StrOf(_)
StrOf(p) == IF p = <<>> THEN "" ELSE Head(p) \o StrOf(Tail(p))

\* concat_ws(sep, array)
RECURSIVE concat_ws(_, _)
concat_ws(sep, parts) ==
    IF parts = <<>> THEN <<>>
    ELSE IF Len(parts) = 1 THEN parts[1]
    ELSE parts[1] \o <<sep>> \o concat_ws(sep, Tail(parts))

RECURSIVE Flatten(_)
Flatten(ss) == IF ss = <<>> THEN <<>> ELSE Head(ss) \o Flatten(Tail(ss))

FieldName(segment_id, i) == segment_id \o "_" \o ToString(i)

--------------------------------------------------------------------------
(* The segment types with a typed view, and their declared columns *)

SupportedTypes == {"MSH", "PID", "EVN", "PV1", "OBR", "OBX", "CTI", "AL1"}

\* the segment codes the parser accepts: the supported ones and a Z-segment
SegmentIds == SupportedTypes \cup {"ZZ1"}

HeaderColumns == {"message_type", "message_datetime", "patient_id", "segment_id"}

\* a PV1 column list that does not skip fields 41 to 50
PV1_columns_contiguous == {FieldName("PV1", i) : i \in 1..54}

MSH_columns == {FieldName("MSH", i) : i \in 1..19}
PID_columns == {FieldName("PID", i) : i \in 1..30}
EVN_columns == {FieldName("EVN", i) : i \in 1..7}
PV1_columns == {FieldName("PV1", i) : i \in (1..40) \cup (51..54)}
OBR_columns == {FieldName("OBR", i) : i \in 1..47}
OBX_columns == {FieldName("OBX", i) : i \in 1..33}
CTI_columns == {FieldName("CTI", i) : i \in 1..4}
AL1_columns == {FieldName("AL1", i) : i \in 1..6}

--------------------------------------------------------------------------
(* hl7apy.parser.parse_message(text, find_groups=False) *)

\* One segment: its name and its fields as children.  The piece after the
\* segment code is field 1, except in MSH, whose field 1 is the separator
\* itself.  An empty piece gives no child, and neither does a field past the
\* last piece.
parse_segment(seg) ==
    LET pieces == Split(seg, FS)
        name   == StrOf(pieces[1])
        off    == IF name = "MSH" THEN 0 ELSE 1
        all    == [j \in 1..(Len(pieces) - 1) |->
                      [name |-> FieldName(name, j + 1 - off), value |-> StrOf(pieces[j + 1])]]
        rest   == SelectSeq(all, LAMBDA c : c.value # "")
    IN  [name     |-> name,
         children |-> IF name = "MSH"
                      THEN <<[name |-> "MSH_1", value |-> FS]>> \o rest
                      ELSE rest]

\* A flat list of segments, one per non-empty carriage-return-terminated
\* piece of the text; a piece that does not start with a segment code makes
\* the call raise.
parse_message(text) ==
    LET segs == SelectSeq(Split(text, CR), LAMBDA s : s # <<>>)
        bad  == {i \in 1..Len(segs) : StrOf(Split(segs[i], FS)[1]) \notin SegmentIds}
    IN  IF bad # {}
        THEN [raised |-> TRUE, error |-> "Invalid segment"]
        ELSE [raised |-> FALSE,
              children |-> [i \in 1..Len(segs) |-> parse_segment(segs[i])]]

\* seg.<name>.value : the value of the child of that name, raising when the
\* segment has no such child
FieldValue(seg, name) ==
    LET at == {i \in 1..Len(seg.children) : seg.children[i].name = name}
    IN  IF at = {}
        THEN [raised |-> TRUE, value |-> None]
        ELSE [raised |-> FALSE,
              value |-> seg.children[CHOOSE i \in at : \A j \in at : i <= j].value]

--------------------------------------------------------------------------
(* parse_hl7_message, the UDF *)

\* try: target = <field lookup>  except: pass
TryAssign(old, lookup) == IF lookup.raised THEN old ELSE lookup.value

\* the header loop with one try around both lookups of a segment: the first
\* lookup that raises skips the second
HeaderStepOneTry(h, seg) ==
    IF seg.name = "MSH"
    THEN IF FieldValue(seg, "MSH_9").raised THEN h
         ELSE [h EXCEPT !.message_type     = FieldValue(seg, "MSH_9").value,
                        !.message_datetime = TryAssign(@, FieldValue(seg, "MSH_7"))]
    ELSE IF seg.name = "PID"
    THEN IF FieldValue(seg, "PID_3").raised THEN h
         ELSE [h EXCEPT !.patient_id   = FieldValue(seg, "PID_3").value,
                        !.patient_name = TryAssign(@, FieldValue(seg, "PID_5"))]
    ELSE h

\* the body of the header loop for one segment
HeaderStep(h, seg) ==
    IF seg.name = "MSH"
    THEN [h EXCEPT !.message_type     = TryAssign(@, FieldValue(seg, "MSH_9")),
                   !.message_datetime = TryAssign(@, FieldValue(seg, "MSH_7"))]
    ELSE IF seg.name = "PID"
    THEN [h EXCEPT !.patient_id   = TryAssign(@, FieldValue(seg, "PID_3")),
                   !.patient_name = TryAssign(@, FieldValue(seg, "PID_5"))]
    ELSE h

\* for seg in msg.children: ... , from the four header variables h
RECURSIVE ExtractHeader(_, _)
ExtractHeader(children, h) ==
    IF children = <<>> THEN h
    ELSE ExtractHeader(Tail(children), HeaderStep(h, Head(children)))

\* a fields dictionary with a key for every position up to the last field,
\* the empty string standing for a field that is absent
SegmentFieldsPadded(seg) ==
    LET n == Len(seg.children)
        names == {FieldName(seg.name, k) : k \in 1..n} \cup {seg.children[i].name : i \in 1..n}
        at(c) == {i \in 1..n : seg.children[i].name = c}
    IN  [c \in names |-> IF at(c) = {} THEN ""
                         ELSE seg.children[CHOOSE i \in at(c) : \A j \in at(c) : j <= i].value]

\* the fields dictionary of one segment: the children that have a value,
\* a later child of the same name replacing an earlier one
SegmentFields(seg) ==
    LET kept == {i \in 1..Len(seg.children) : seg.children[i].value # None}
        last(n) == CHOOSE i \in kept :
                       /\ seg.children[i].name = n
                       /\ \A j \in kept : seg.children[j].name = n => j <= i
    IN  [n \in {seg.children[i].name : i \in kept} |-> seg.children[last(n)].value]

ExtractSegments(children) ==
    [i \in 1..Len(children) |->
        [segment_id |-> children[i].name, fields |-> SegmentFields(children[i])]]

\* an except branch that returns no synthetic segment
ErrorFormNoSegment(e) ==
    [message_type     |-> "ERROR",
     message_datetime |-> None,
     patient_id       |-> None,
     patient_name     |-> None,
     segments         |-> <<>>]

\* the value returned from the except branch
ErrorForm(e) ==
    [message_type     |-> "ERROR",
     message_datetime |-> None,
     patient_id       |-> None,
     patient_name     |-> None,
     segments         |-> <<[segment_id |-> "ERROR", fields |-> [k \in {"error"} |-> e]]>>]

NoHeader ==
    [message_type |-> None, message_datetime |-> None,
     patient_id |-> None, patient_name |-> None]

\* the UDF without its try/except: what parse_message raises reaches the caller
parse_hl7_message_noexcept(hl7_str) ==
    LET text == Replace(hl7_str, LF, CR)
        msg  == parse_message(text)
    IN  IF msg.raised
        THEN [exception |-> msg.error]
        ELSE LET h == ExtractHeader(msg.children, NoHeader)
             IN  [message_type     |-> h.message_type,
                  message_datetime |-> h.message_datetime,
                  patient_id       |-> h.patient_id,
                  patient_name     |-> h.patient_name,
                  segments         |-> ExtractSegments(msg.children)]

parse_hl7_message(hl7_str) ==
    LET text == Replace(hl7_str, LF, CR)
        msg  == parse_message(text)
    IN  IF msg.raised
        THEN ErrorForm(msg.error)
        ELSE LET h == ExtractHeader(msg.children, NoHeader)
             IN  [message_type     |-> h.message_type,
                  message_datetime |-> h.message_datetime,
                  patient_id       |-> h.patient_id,
                  patient_name     |-> h.patient_name,
                  segments         |-> ExtractSegments(msg.children)]

\* a call of the UDF that ended in an exception instead of a value
IsException(r) == "exception" \in DOMAIN r

--------------------------------------------------------------------------
(* The tables *)

\* the distinct file paths of the rows, in order of first arrival
RECURSIVE FilePaths(_)
FilePaths(rows) ==
    IF rows = <<>> THEN <<>>
    ELSE LET before == FilePaths(SubSeq(rows, 1, Len(rows) - 1))
             f      == rows[Len(rows)].file_path
         IN  IF \E i \in 1..Len(before) : before[i] = f
             THEN before ELSE Append(before, f)

\* a collect_list over the whole stream, the grouping by file path lost
collect_list_ungrouped(rows, f) == [i \in 1..Len(rows) |-> rows[i].value]

\* collect_list("value") of the group of one file path
collect_list(rows, f) ==
    LET mine == SelectSeq(rows, LAMBDA r : r.file_path = f)
    IN  [i \in 1..Len(mine) |-> mine[i].value]

raw_data(rows) ==
    LET keys == FilePaths(rows)
    IN  [k \in 1..Len(keys) |->
            [file_path |-> keys[k],
             value     |-> concat_ws(CR, collect_list(rows, keys[k]))]]

\* a bronze flow that stops at the first blob the UDF could not parse
bronze_stop_at_error(raw) ==
    LET all == [i \in 1..Len(raw) |->
                   [file_path |-> raw[i].file_path,
                    value     |-> raw[i].value,
                    parsed    |-> parse_hl7_message(raw[i].value)]]
        bad == {i \in 1..Len(all) : all[i].parsed.message_type = "ERROR"}
    IN  IF bad = {} THEN all
        ELSE SubSeq(all, 1, (CHOOSE i \in bad : \A j \in bad : i <= j) - 1)

bronze(raw) ==
    [i \in 1..Len(raw) |->
        [file_path |-> raw[i].file_path,
         value     |-> raw[i].value,
         parsed    |-> parse_hl7_message(raw[i].value)]]

silver(b) == [i \in 1..Len(b) |-> b[i].parsed]

\* select(..., explode("segments")).select(..., segment.segment_id, segment.fields)
Exploded(s) ==
    Flatten([i \in 1..Len(s) |->
        [j \in 1..Len(s[i].segments) |->
            [message_type     |-> s[i].message_type,
             message_datetime |-> s[i].message_datetime,
             patient_id       |-> s[i].patient_id,
             segment_id       |-> s[i].segments[j].segment_id,
             fields           |-> s[i].segments[j].fields]]])

\* .filter(col("segment_id") == T).select(<header columns>, "fields.<c>" ...)
TypedView(s, T, columns) ==
    LET rows == SelectSeq(Exploded(s), LAMBDA r : r.segment_id = T)
    IN  [i \in 1..Len(rows) |->
            [c \in HeaderColumns \cup columns |->
                IF c = "message_type" THEN rows[i].message_type
                ELSE IF c = "message_datetime" THEN rows[i].message_datetime
                ELSE IF c = "patient_id" THEN rows[i].patient_id
                ELSE IF c = "segment_id" THEN rows[i].segment_id
                ELSE IF c \in DOMAIN rows[i].fields THEN rows[i].fields[c]
                ELSE None]]

\* a generic view that keeps only the segment types that have a typed view
gold_all_supported_only(s) ==
    SelectSeq(Exploded(s), LAMBDA r : r.segment_id \in SupportedTypes)

\* an OBX view with the filter of the OBR view
gold_obx_obr_filter(s) == TypedView(s, "OBR", OBX_columns)

\* an AL1 view without its filter on segment_id
gold_al1_unfiltered(s) ==
    LET rows == Exploded(s)
    IN  [i \in 1..Len(rows) |->
            [c \in HeaderColumns \cup AL1_columns |->
                IF c = "message_type" THEN rows[i].message_type
                ELSE IF c = "message_datetime" THEN rows[i].message_datetime
                ELSE IF c = "patient_id" THEN rows[i].patient_id
                ELSE IF c = "segment_id" THEN rows[i].segment_id
                ELSE IF c \in DOMAIN rows[i].fields THEN rows[i].fields[c]
                ELSE None]]

\* an MSH view without its filter on segment_id
gold_msh_unfiltered(s) ==
    LET rows == Exploded(s)
    IN  [i \in 1..Len(rows) |->
            [c \in HeaderColumns \cup MSH_columns |->
                IF c = "message_type" THEN rows[i].message_type
                ELSE IF c = "message_datetime" THEN rows[i].message_datetime
                ELSE IF c = "patient_id" THEN rows[i].patient_id
                ELSE IF c = "segment_id" THEN rows[i].segment_id
                ELSE IF c \in DOMAIN rows[i].fields THEN rows[i].fields[c]
                ELSE None]]

gold_all(s) == Exploded(s)
gold_msh(s) == TypedView(s, "MSH", MSH_columns)
gold_pid(s) == TypedView(s, "PID", PID_columns)
gold_evn(s) == TypedView(s, "EVN", EVN_columns)
gold_pv1(s) == TypedView(s, "PV1", PV1_columns)
gold_obr(s) == TypedView(s, "OBR", OBR_columns)
gold_obx(s) == TypedView(s, "OBX", OBX_columns)
gold_cti(s) == TypedView(s, "CTI", CTI_columns)
gold_al1(s) == TypedView(s, "AL1", AL1_columns)

TableNames ==
    {"raw_data", "bronze", "silver", "gold_all", "gold_msh", "gold_pid",
     "gold_evn", "gold_pv1", "gold_obr", "gold_obx", "gold_cti", "gold_al1"}

NoTables == [t \in TableNames |-> <<>>]

\* the nine gold tables over a silver table
WithGold(tb, s) ==
    [tb EXCEPT !["gold_all"] = gold_all(s), !["gold_msh"] = gold_msh(s),
               !["gold_pid"] = gold_pid(s), !["gold_evn"] = gold_evn(s),
               !["gold_pv1"] = gold_pv1(s), !["gold_obr"] = gold_obr(s),
               !["gold_obx"] = gold_obx(s), !["gold_cti"] = gold_cti(s),
               !["gold_al1"] = gold_al1(s)]

\* the typed view of a segment type, among the tables
TypedTable(tb, T) ==
    CASE T = "MSH" -> tb["gold_msh"] [] T = "PID" -> tb["gold_pid"]
      [] T = "EVN" -> tb["gold_evn"] [] T = "PV1" -> tb["gold_pv1"]
      [] T = "OBR" -> tb["gold_obr"] [] T = "OBX" -> tb["gold_obx"]
      [] T = "CTI" -> tb["gold_cti"] [] T = "AL1" -> tb["gold_al1"]

TypedColumns(T) ==
    CASE T = "MSH" -> MSH_columns [] T = "PID" -> PID_columns
      [] T = "EVN" -> EVN_columns [] T = "PV1" -> PV1_columns
      [] T = "OBR" -> OBR_columns [] T = "OBX" -> OBX_columns
      [] T = "CTI" -> CTI_columns [] T = "AL1" -> AL1_columns

--------------------------------------------------------------------------
(* Inputs *)

MaxArrivals == 4
MaxSegments == 3

\* one line of a file: the segment code and its fields, separated by FS
Line(name, fs) ==
    <<name>> \o Flatten([i \in 1..Len(fs) |-> IF fs[i] = "" THEN <<FS>> ELSE <<FS, fs[i]>>])

MSH_full == Line("MSH", <<"^~\\&", "SysA", "FacA", "SysB", "FacB", "20230101120000",
                          "", "ADT^A01", "MSG001", "P", "2.5">>)
MSH_no9  == Line("MSH", <<"^~\\&", "SysC", "FacC", "", "", "20240202093000">>)
MSH_no7  == Line("MSH", <<"^~\\&", "SysD", "", "", "", "", "", "ORU^R01">>)
PID_full == Line("PID", <<"", "", "12345^^^MRN", "", "Doe^John">>)
PID_no5  == Line("PID", <<"1", "", "67890^^^MRN">>)
PID_no3  == Line("PID", <<"", "", "", "", "Roe^Jane">>)
OBX_line == Line("OBX", <<"1", "NM", "GLU">>)
PV1_line == Line("PV1", [i \in 1..51 |-> IF i = 2 THEN "I"
                                         ELSE IF i = 41 THEN "F41"
                                         ELSE IF i = 51 THEN "V51" ELSE ""])
ZZ1_line == Line("ZZ1", <<"custom", "", "data">>)
BAD_line == <<"not an HL7 segment">>

HL7Lines ==
    {MSH_full, MSH_no9, MSH_no7, PID_full, PID_no5, PID_no3,
     OBX_line, PV1_line, ZZ1_line, BAD_line}

\* the lines the files of the volume are made of, and the files
StreamLines == {MSH_full, PID_full, BAD_line}
Files == {"A", "B"}

\* the texts of the messages of one to MaxSegments lines: joined with CR as
\* raw_data joins them, or each line ended by LF as in the file
Blobs ==
    LET msgs == UNION {[1..n -> HL7Lines] : n \in 1..MaxSegments}
    IN  {concat_ws(CR, m) : m \in msgs}
            \cup {Flatten([i \in 1..Len(m) |-> m[i] \o <<LF>>]) : m \in msgs}

--------------------------------------------------------------------------
(* The pipeline: lines arrive, an update runs the flows in dependency order *)

Init ==
    /\ arrived = <<>>
    /\ ingested = 0
    /\ tables = NoTables
    /\ status = "IDLE"
    /\ pc = "update"
    /\ messages = <<>>
    /\ request = None
    /\ script = "idle"

\* the cloudFiles stream delivers one more line of a file
Arrive(f, l) ==
    /\ Len(arrived) < MaxArrivals
    /\ arrived' = Append(arrived, [file_path |-> f, value |-> l])
    /\ UNCHANGED <<ingested, tables, status, pc>>
    /\ UNCHANGED chat

\* one pipeline update: raw_data, bronze, silver, then the gold tables; an
\* exception out of the UDF fails the update after raw_data
Update ==
    /\ ingested < Len(arrived)
    /\ LET raw == raw_data(arrived)
           b   == bronze(raw)
       IN  IF \E i \in 1..Len(b) : IsException(b[i].parsed)
           THEN /\ tables' = [tables EXCEPT !["raw_data"] = raw]
                /\ status' = "FAILED"
           ELSE /\ tables' = WithGold([tables EXCEPT !["raw_data"] = raw,
                                                     !["bronze"] = b,
                                                     !["silver"] = silver(b)],
                                      silver(b))
                /\ status' = "COMPLETED"
    /\ ingested' = Len(arrived)
    /\ UNCHANGED <<arrived, pc>>
    /\ UNCHANGED chat

Next ==
    \/ \E f \in Files, l \in StreamLines : Arrive(f, l)
    \/ Update

Spec == Init /\ [][Next]_vars

--------------------------------------------------------------------------
(* The flows applied one by one to one message text *)

InitParse ==
    /\ arrived = <<>>
    /\ ingested = 0
    /\ \E blob \in Blobs :
          tables = [NoTables EXCEPT !["raw_data"] = <<[file_path |-> "A", value |-> blob]>>]
    /\ status = "IDLE"
    /\ pc = "bronze"
    /\ messages = <<>>
    /\ request = None
    /\ script = "idle"

RunBronze ==
    /\ pc = "bronze"
    /\ LET b == bronze(tables["raw_data"])
       IN  IF \E i \in 1..Len(b) : IsException(b[i].parsed)
           THEN /\ status' = "FAILED"
                /\ pc' = "done"
                /\ UNCHANGED tables
           ELSE /\ tables' = [tables EXCEPT !["bronze"] = b]
                /\ pc' = "silver"
                /\ UNCHANGED status
    /\ UNCHANGED <<arrived, ingested>>
    /\ UNCHANGED chat

RunSilver ==
    /\ pc = "silver"
    /\ tables' = [tables EXCEPT !["silver"] = silver(tables["bronze"])]
    /\ pc' = "gold"
    /\ UNCHANGED <<arrived, ingested, status>>
    /\ UNCHANGED chat

RunGold ==
    /\ pc = "gold"
    /\ tables' = WithGold(tables, tables["silver"])
    /\ pc' = "done"
    /\ status' = "COMPLETED"
    /\ UNCHANGED <<arrived, ingested>>
    /\ UNCHANGED chat

NextParse == RunBronze \/ RunSilver \/ RunGold

SpecParse == InitParse /\ [][NextParse]_vars

--------------------------------------------------------------------------
(* The chat front-end: one Streamlit session *)

MaxPrompts == 3
Prompts == {"What is the code for asthma?", "And for COPD?"}
Responses == {"J45.909"}

\* what query_endpoint(...)["content"] does: gives the content of the
\* endpoint's reply, or raises
Outcomes ==
    {[raised |-> FALSE, content |-> r] : r \in Responses}
        \cup {[raised |-> TRUE, content |-> None]}

Apology ==
    "I apologize, but I'm currently unable to process your request. Please try again later."

user(prompt) == [role |-> "user", content |-> prompt]
assistant(content) == [role |-> "assistant", content |-> content]

\* the try / except around the endpoint call
assistant_response(outcome) ==
    IF outcome.raised THEN Apology ELSE outcome.content

Submitted == Cardinality({i \in 1..Len(messages) : messages[i].role = "user"})

\* a prompt is submitted: the script runs from the top, appends the user
\* entry and calls the endpoint with the session's list.  A run that was
\* still waiting for the endpoint is abandoned where it stands: Streamlit
\* stops it at its next st.* call by an exception that derives from
\* BaseException, which the handler's except Exception does not catch, so
\* that run never appends its assistant entry.
ChatInput(prompt) ==
    /\ Submitted < MaxPrompts
    /\ messages' = Append(messages, user(prompt))
    /\ request' = messages'
    /\ script' = "calling"
    /\ UNCHANGED pipeline

\* the endpoint call returns or raises, and the run appends the assistant
\* entry
Respond(outcome) ==
    /\ script = "calling"
    /\ messages' = Append(messages, assistant(assistant_response(outcome)))
    /\ script' = "idle"
    /\ UNCHANGED request
    /\ UNCHANGED pipeline

\* Clear Chat History: the script runs from the top (a run waiting for the
\* endpoint is abandoned), empties the list and reruns with no prompt
ClearChat ==
    /\ messages' = <<>>
    /\ script' = "idle"
    /\ UNCHANGED request
    /\ UNCHANGED pipeline

NextChat ==
    \/ \E prompt \in Prompts : ChatInput(prompt)
    \/ \E outcome \in Outcomes : Respond(outcome)
    \/ ClearChat

SpecChat == Init /\ [][NextChat]_vars

--------------------------------------------------------------------------
(* Properties of the parser, under SpecParse *)

\* the message text under SpecParse, and what the UDF made of it
TheBlob == tables["raw_data"][1].value
HasParsed == pc # "bronze" /\ Len(tables["bronze"]) = 1
Parsed == tables["bronze"][1].parsed

\* parse_message raises on the normalised text
Unparseable(text) == parse_message(Replace(text, LF, CR)).raised

\* the four header fields of a parsed message
HeaderOf(m) == <<m.message_type, m.message_datetime, m.patient_id, m.patient_name>>

\* C1 (as amended): for an input that is not parseable the UDF returns one
\* segment, "ERROR", whose single field "error" carries the description of
\* the failure; message_datetime, patient_id and patient_name are null and
\* message_type is the string "ERROR".
C1_ErrorForm ==
    (pc # "bronze" /\ Unparseable(TheBlob)) =>
        /\ Len(tables["bronze"]) = 1
        /\ Len(Parsed.segments) = 1
        /\ Parsed.segments[1].segment_id = "ERROR"
        /\ DOMAIN Parsed.segments[1].fields = {"error"}
        /\ Parsed.segments[1].fields["error"] = "Invalid segment"
        /\ HeaderOf(Parsed) = <<"ERROR", None, None, None>>

\* C1 as stated: ... and all four header fields are null.
C1_AllHeadersNull ==
    (pc # "bronze" /\ Unparseable(TheBlob)) =>
        /\ Len(tables["bronze"]) = 1
        /\ Len(Parsed.segments) = 1
        /\ Parsed.segments[1].segment_id = "ERROR"
        /\ DOMAIN Parsed.segments[1].fields = {"error"}
        /\ HeaderOf(Parsed) = <<None, None, None, None>>

C1_Witness ==
    /\ HasParsed
    /\ Unparseable(TheBlob)
    /\ Parsed.segments[1].segment_id = "ERROR"
    /\ Parsed.message_datetime = None

\* C2: the UDF is total.  Whatever the text, once bronze has run the update
\* has not failed, bronze holds the row of the message, its parsed value is a
\* message and no exception, and it is the one-segment ERROR form exactly
\* when parsing raised.
C2_Total ==
    pc # "bronze" =>
        /\ status # "FAILED"
        /\ Len(tables["bronze"]) = 1
        /\ ~IsException(Parsed)
        /\ Unparseable(TheBlob) <=>
              (Len(Parsed.segments) = 1 /\ Parsed.segments[1].segment_id = "ERROR")

C2_Witness ==
    /\ HasParsed
    /\ Unparseable(TheBlob)
    /\ \E i \in 1..Len(TheBlob) : TheBlob[i] = LF
    /\ ~IsException(Parsed)
    /\ status # "FAILED"

\* the value of field c of the first segment of type T, None when there is no
\* such segment or it lacks the field
FirstField(m, T, c) ==
    LET at == {i \in 1..Len(m.segments) : m.segments[i].segment_id = T}
        first == CHOOSE i \in at : \A j \in at : i <= j
    IN  IF at = {} THEN None
        ELSE IF c \in DOMAIN m.segments[first].fields
        THEN m.segments[first].fields[c] ELSE None

\* C3: message_type and message_datetime are fields 9 and 7 of the first MSH
\* segment, patient_id and patient_name fields 3 and 5 of the first PID
\* segment; later MSH or PID segments do not change them.
C3_FirstSegmentWins ==
    (HasParsed /\ ~Unparseable(TheBlob)) =>
        HeaderOf(Parsed) = <<FirstField(Parsed, "MSH", "MSH_9"),
                            FirstField(Parsed, "MSH", "MSH_7"),
                            FirstField(Parsed, "PID", "PID_3"),
                            FirstField(Parsed, "PID", "PID_5")>>

\* the segments of type T of a message that carry field c
Carriers(m, T, c) ==
    {i \in 1..Len(m.segments) :
        m.segments[i].segment_id = T /\ c \in DOMAIN m.segments[i].fields}

\* header value h is null exactly when no segment of type T carries c, and
\* is the c of such a segment otherwise
FromField(m, h, T, c) ==
    IF Carriers(m, T, c) = {} THEN h = None
    ELSE \E i \in Carriers(m, T, c) : h = m.segments[i].fields[c]

\* C4: the four header fields are extracted independently.  Each is null
\* exactly when no segment of its type carries its field, whatever the
\* other three fields are, and a missing field never makes the ERROR form.
C4_Independent ==
    (HasParsed /\ ~Unparseable(TheBlob)) =>
        /\ FromField(Parsed, Parsed.message_type, "MSH", "MSH_9")
        /\ FromField(Parsed, Parsed.message_datetime, "MSH", "MSH_7")
        /\ FromField(Parsed, Parsed.patient_id, "PID", "PID_3")
        /\ FromField(Parsed, Parsed.patient_name, "PID", "PID_5")
        /\ \A i \in 1..Len(Parsed.segments) : Parsed.segments[i].segment_id # "ERROR"

\* a valid MSH and a PID without field 5
C4_Witness ==
    /\ HasParsed
    /\ ~Unparseable(TheBlob)
    /\ Carriers(Parsed, "MSH", "MSH_9") # {}
    /\ Carriers(Parsed, "MSH", "MSH_7") # {}
    /\ \E i \in 1..Len(Parsed.segments) : Parsed.segments[i].segment_id = "PID"
    /\ Carriers(Parsed, "PID", "PID_5") = {}
    /\ Parsed.patient_name = None
    /\ Parsed.message_type = "ADT^A01"
    /\ Parsed.message_datetime = "20230101120000"

--------------------------------------------------------------------------
(* Properties of the projections, under SpecParse *)

\* the flows have all run on the message
Projected == pc = "done" /\ status = "COMPLETED"

\* the segments of a text as written: its non-empty lines
InputSegments(text) ==
    SelectSeq(Split(Replace(text, LF, CR), CR), LAMBDA l : l # <<>>)

\* the number of fields of a line that have a value (with MSH's separator)
ValuedFields(l) ==
    LET pieces == Split(l, FS)
    IN  Cardinality({k \in 2..Len(pieces) : pieces[k] # <<>>})
            + (IF l[1] = "MSH" THEN 1 ELSE 0)

TheMessage == tables["silver"][1]

\* C5: for a valid text of N segments gold_all holds exactly N records, the
\* i-th of them for the i-th segment of the text, with the message's header
\* values and the segment's whole field mapping.
C5_ProjectAll ==
    (Projected /\ ~Unparseable(TheBlob)) =>
        LET segs == InputSegments(TheBlob)
            g    == tables["gold_all"]
        IN  /\ Len(g) = Len(segs)
            /\ \A i \in 1..Len(g) :
                  /\ g[i].segment_id = segs[i][1]
                  /\ g[i].fields = TheMessage.segments[i].fields
                  /\ Cardinality(DOMAIN g[i].fields) = ValuedFields(segs[i])
                  /\ g[i].message_type = TheMessage.message_type
                  /\ g[i].message_datetime = TheMessage.message_datetime
                  /\ g[i].patient_id = TheMessage.patient_id

C5_Witness ==
    /\ Projected
    /\ ~Unparseable(TheBlob)
    /\ Len(tables["gold_all"]) = 3
    /\ tables["gold_all"][1].segment_id = "MSH"
    /\ tables["gold_all"][2].segment_id = "ZZ1"
    /\ tables["gold_all"][3].segment_id = "PID"
    /\ tables["gold_all"][3].fields = [c \in {"PID_3", "PID_5"} |->
                                          IF c = "PID_3" THEN "12345^^^MRN" ELSE "Doe^John"]

\* the segments of type T of a message, in order
SegmentsOf(m, T) == SelectSeq(m.segments, LAMBDA g : g.segment_id = T)

\* C6: the typed view of each supported type T holds one record per segment
\* of type T of the message, in order; the record has the header columns and
\* exactly T's declared columns (30 for PID), each the segment's field value,
\* or null when the segment lacks the field.
C6_ProjectTyped ==
    Projected =>
        /\ Cardinality(TypedColumns("PID")) = 30
        /\ \A T \in SupportedTypes :
           \A v \in {TypedTable(tables, T)}, at \in {SegmentsOf(TheMessage, T)} :
              /\ Len(v) = Len(at)
              /\ ~Unparseable(TheBlob) =>
                    Len(v) = Len(SelectSeq(InputSegments(TheBlob), LAMBDA l : l[1] = T))
              /\ \A k \in 1..Len(v) :
                    /\ DOMAIN v[k] = HeaderColumns \cup TypedColumns(T)
                    /\ v[k]["segment_id"] = T
                    /\ v[k]["message_type"] = TheMessage.message_type
                    /\ v[k]["message_datetime"] = TheMessage.message_datetime
                    /\ v[k]["patient_id"] = TheMessage.patient_id
                    /\ \A c \in TypedColumns(T) :
                          v[k][c] = IF c \in DOMAIN at[k].fields
                                    THEN at[k].fields[c] ELSE None

\* three OBX segments give three OBX records
C6_Witness ==
    /\ Projected
    /\ InputSegments(TheBlob) = <<OBX_line, OBX_line, OBX_line>>
    /\ Len(tables["gold_obx"]) = 3
    /\ tables["gold_obx"][3]["OBX_2"] = "NM"
    /\ tables["gold_obx"][3]["OBX_4"] = None

\* C7: the PV1 view has exactly the columns PV1_1 to PV1_40 and PV1_51 to
\* PV1_54 beside the header columns.  A field of a PV1 segment outside that
\* list (PV1_41 to PV1_50) is no column of the typed record, the update does
\* not fail on it, and the field is in the fields of the segment's record in
\* gold_all.
C7_KnownColumns ==
    Projected =>
        /\ \A k \in 1..Len(tables["gold_pv1"]) :
              DOMAIN tables["gold_pv1"][k] =
                  HeaderColumns \cup {FieldName("PV1", i) : i \in (1..40) \cup (51..54)}
        /\ Len(tables["gold_pv1"]) = Len(SegmentsOf(TheMessage, "PV1"))
        /\ Len(tables["gold_all"]) = Len(TheMessage.segments)
        /\ \A j \in 1..Len(TheMessage.segments) :
              TheMessage.segments[j].segment_id = "PV1" =>
                  \A i \in 41..50 :
                      FieldName("PV1", i) \in DOMAIN TheMessage.segments[j].fields =>
                          /\ tables["gold_all"][j].segment_id = "PV1"
                          /\ FieldName("PV1", i) \in DOMAIN tables["gold_all"][j].fields
                          /\ tables["gold_all"][j].fields[FieldName("PV1", i)]
                                 = TheMessage.segments[j].fields[FieldName("PV1", i)]

C7_Witness ==
    /\ Projected
    /\ InputSegments(TheBlob) = <<MSH_full, PV1_line>>
    /\ Len(tables["gold_pv1"]) = 1
    /\ "PV1_41" \notin DOMAIN tables["gold_pv1"][1]
    /\ tables["gold_pv1"][1]["PV1_51"] = "V51"
    /\ tables["gold_pv1"][1]["PV1_2"] = "I"
    /\ tables["gold_all"][2].fields["PV1_41"] = "F41"

\* the tables of the message text without its segments of unsupported type
WithoutUnsupported(text) ==
    LET kept == SelectSeq(InputSegments(text), LAMBDA l : l[1] \in SupportedTypes)
        raw  == <<[file_path |-> "A", value |-> concat_ws(CR, kept)]>>
    IN  WithGold(NoTables, silver(bronze(raw)))

\* C8: a segment of unsupported type is no error.  It gives exactly one
\* record of gold_all, at its place, and none of any typed view, and the
\* records of the other segments are those of the message without it.
C8_UnsupportedSegment ==
    (Projected /\ ~Unparseable(TheBlob)) =>
        \A segs \in {InputSegments(TheBlob)}, rest \in {WithoutUnsupported(TheBlob)} :
            LET g     == tables["gold_all"]
                other == {i \in 1..Len(segs) : segs[i][1] \notin SupportedTypes}
            IN  /\ Len(g) = Len(segs)
                /\ \A i \in other : g[i].segment_id = segs[i][1]
                /\ {i \in 1..Len(g) : g[i].segment_id \notin SupportedTypes} = other
                /\ SelectSeq(g, LAMBDA r : r.segment_id \in SupportedTypes) = rest["gold_all"]
                /\ \A T \in SupportedTypes :
                      /\ TypedTable(tables, T) = TypedTable(rest, T)
                      /\ \A k \in 1..Len(TypedTable(tables, T)) :
                            TypedTable(tables, T)[k]["segment_id"] = T

C8_Witness ==
    /\ Projected
    /\ InputSegments(TheBlob) = <<MSH_full, ZZ1_line, PID_full>>
    /\ tables["gold_all"][2].segment_id = "ZZ1"
    /\ tables["gold_all"][2].fields["ZZ1_1"] = "custom"
    /\ Len(tables["gold_msh"]) = 1
    /\ Len(tables["gold_pid"]) = 1
    /\ \A T \in SupportedTypes \ {"MSH", "PID"} : TypedTable(tables, T) = <<>>

--------------------------------------------------------------------------
(* Properties of the pipeline, under Spec *)

\* the positions, among the rows the last update read, of the lines of file f
PositionsOf(f) == {i \in 1..ingested : arrived[i].file_path = f}

\* the position of the k-th line of file f
NthOf(f, k) ==
    CHOOSE i \in PositionsOf(f) : Cardinality({j \in PositionsOf(f) : j <= i}) = k

\* C9: after an update raw_data holds one row for each file that has
\* delivered a line and none for any other; the value of the row of a file
\* is the lines of that file alone, in the order they arrived, joined with
\* carriage returns.
C9_Assembler ==
    ingested > 0 =>
        LET raw == tables["raw_data"]
        IN  /\ {raw[r].file_path : r \in 1..Len(raw)} = {f \in Files : PositionsOf(f) # {}}
            /\ \A r1, r2 \in 1..Len(raw) : raw[r1].file_path = raw[r2].file_path => r1 = r2
            /\ \A r \in 1..Len(raw) :
                  LET f     == raw[r].file_path
                      lines == Split(raw[r].value, CR)
                  IN  /\ Len(lines) = Cardinality(PositionsOf(f))
                      /\ \A k \in 1..Len(lines) : lines[k] = arrived[NthOf(f, k)].value

\* lines arrive for A, A, B, A
C9_Witness ==
    /\ ingested = 4
    /\ [i \in 1..4 |-> arrived[i].file_path] = <<"A", "A", "B", "A">>
    /\ [i \in 1..4 |-> arrived[i].value] = <<MSH_full, PID_full, BAD_line, BAD_line>>
    /\ tables["raw_data"] =
          <<[file_path |-> "A",
             value |-> MSH_full \o <<CR>> \o PID_full \o <<CR>> \o BAD_line],
            [file_path |-> "B", value |-> BAD_line]>>

\* the tables of an update over the given rows of the stream
PipelineOver(rows) ==
    LET raw == raw_data(rows)
        b   == bronze(raw)
    IN  WithGold([NoTables EXCEPT !["raw_data"] = raw, !["bronze"] = b,
                                  !["silver"] = silver(b)],
                 silver(b))

\* the files whose blob, as raw_data holds it, cannot be parsed
MalformedFiles ==
    {tables["raw_data"][r].file_path :
        r \in {q \in 1..Len(tables["raw_data"]) : Unparseable(tables["raw_data"][q].value)}}

\* C10: an update never fails on a malformed blob and drops none: bronze
\* and silver hold one row per blob of raw_data, in its order, the ERROR
\* form exactly for the malformed ones; and the rows and records of the
\* well-formed blobs are those of an update over the stream without the
\* lines of the malformed blobs.
C10_FailSoft ==
    ingested > 0 =>
        \A bad \in {MalformedFiles} :
        \A alone \in {PipelineOver(SelectSeq(SubSeq(arrived, 1, ingested),
                                             LAMBDA a : a.file_path \notin bad))} :
            LET raw == tables["raw_data"]
                b   == tables["bronze"]
            IN  /\ status = "COMPLETED"
                /\ Len(b) = Len(raw)
                /\ Len(tables["silver"]) = Len(raw)
                /\ \A i \in 1..Len(b) :
                      /\ b[i].file_path = raw[i].file_path
                      /\ b[i].value = raw[i].value
                      /\ ~IsException(b[i].parsed)
                      /\ tables["silver"][i] = b[i].parsed
                      /\ raw[i].file_path \in bad <=>
                            (Len(b[i].parsed.segments) = 1
                                /\ b[i].parsed.segments[1].segment_id = "ERROR")
                /\ SelectSeq(b, LAMBDA r : r.file_path \notin bad) = alone["bronze"]
                /\ SelectSeq(tables["gold_all"], LAMBDA r : r.segment_id # "ERROR")
                       = alone["gold_all"]
                /\ \A T \in SupportedTypes : TypedTable(tables, T) = TypedTable(alone, T)

\* a malformed blob first, a well-formed one after it
C10_Witness ==
    /\ ingested = 3
    /\ status = "COMPLETED"
    /\ Len(tables["raw_data"]) = 2
    /\ Unparseable(tables["raw_data"][1].value)
    /\ tables["bronze"][1].parsed.segments[1].segment_id = "ERROR"
    /\ tables["bronze"][2].parsed.message_type = "ADT^A01"
    /\ tables["bronze"][2].parsed.patient_id = "12345^^^MRN"
    /\ Len(tables["gold_all"]) = 3
    /\ Len(tables["gold_pid"]) = 1

--------------------------------------------------------------------------
(* Properties of the field mappings and of the ERROR form, under SpecParse *)

\* the positions of a line whose field has a value, as field indexes (MSH
\* counts its separator as field 1)
ValuedIndexes(l) ==
    LET pieces == Split(l, FS)
        off    == IF l[1] = "MSH" THEN 0 ELSE 1
    IN  {k - off : k \in {q \in 2..Len(pieces) : pieces[q] # <<>>}}
            \cup (IF l[1] = "MSH" THEN {1} ELSE {})

\* the keys of a mapping are <segment_id>_<index> for the given indexes, and
\* no value is null or the empty string
KeysAre(fields, segment_id, indexes) ==
    /\ DOMAIN fields = {FieldName(segment_id, k) : k \in indexes}
    /\ \A c \in DOMAIN fields : fields[c] # None /\ fields[c] # ""

\* C11 (as amended): in every segment of a message that parsed, the fields
\* mapping has a key exactly for the fields that have a value in the source
\* segment, each key <segment_id>_<1-based index>, and no value null or
\* empty; the synthetic ERROR segment of a failed parse has the one key
\* "error" instead.
C11_FieldKeys ==
    HasParsed =>
        \A segs \in {InputSegments(TheBlob)} :
            IF Unparseable(TheBlob)
            THEN DOMAIN Parsed.segments[1].fields = {"error"}
            ELSE /\ Len(Parsed.segments) = Len(segs)
                 /\ \A i \in 1..Len(segs) :
                       /\ Parsed.segments[i].segment_id = segs[i][1]
                       /\ KeysAre(Parsed.segments[i].fields, segs[i][1],
                                  ValuedIndexes(segs[i]))

\* C11 as stated: in every segment parse produces, every key of the fields
\* mapping is <segment_id>_<1-based index> and carries a non-null value.
C11_EveryKeyIndexed ==
    HasParsed =>
        \A i \in 1..Len(Parsed.segments) :
            \A c \in DOMAIN Parsed.segments[i].fields :
                /\ \E k \in 1..60 : c = FieldName(Parsed.segments[i].segment_id, k)
                /\ Parsed.segments[i].fields[c] # None

\* a PID segment with fields 3 and 5 only: no key for 1, 2 and 4
C11_Witness ==
    /\ HasParsed
    /\ InputSegments(TheBlob) = <<MSH_full, PID_full>>
    /\ DOMAIN Parsed.segments[2].fields = {"PID_3", "PID_5"}
    /\ "MSH_8" \notin DOMAIN Parsed.segments[1].fields
    /\ Parsed.segments[1].fields["MSH_9"] = "ADT^A01"

\* C12: a message whose parse failed gives gold_all exactly one record, with
\* segment_id "ERROR", message_type "ERROR", null message_datetime and
\* patient_id and the single field "error", and gives no record to any of
\* the eight typed views.
C12_ErrorRecord ==
    (Projected /\ Unparseable(TheBlob)) =>
        /\ Len(tables["gold_all"]) = 1
        /\ tables["gold_all"][1].segment_id = "ERROR"
        /\ tables["gold_all"][1].message_type = "ERROR"
        /\ tables["gold_all"][1].message_datetime = None
        /\ tables["gold_all"][1].patient_id = None
        /\ DOMAIN tables["gold_all"][1].fields = {"error"}
        /\ \A T \in SupportedTypes : TypedTable(tables, T) = <<>>

\* a text with a good MSH and a line that is no segment
C12_Witness ==
    /\ Projected
    /\ InputSegments(TheBlob) = <<MSH_full, BAD_line>>
    /\ Len(tables["gold_all"]) = 1
    /\ tables["gold_all"][1].fields["error"] = "Invalid segment"
    /\ tables["gold_msh"] = <<>>

--------------------------------------------------------------------------
(* Properties of the chat front-end, under SpecChat *)

Alternates(ms) ==
    /\ Len(ms) % 2 = 0
    /\ \A i \in 1..Len(ms) :
          ms[i].role = (IF i % 2 = 1 THEN "user" ELSE "assistant")

\* C13: whenever no script run is under way, the session's messages list has
\* even length and alternates the roles user, assistant starting with user;
\* the endpoint was last called with a history ending in a user entry.
C13_Alternates ==
    script = "idle" =>
        /\ Alternates(messages)
        /\ request # None => request[Len(request)].role = "user"

\* a second prompt submitted while the first waits for the endpoint: the
\* first run's assistant entry is never appended
C13_TwoUsers ==
    /\ script = "idle"
    /\ Len(messages) = 3
    /\ messages[1].role = "user"
    /\ messages[2].role = "user"
    /\ messages[3].role = "assistant"

====
